---- MODULE Spec2Model ----
(***************************************************************************)
(* Grid-background removal (mobile/remove_background_simple.py) and the    *)
(* batch driver of scripts/make-transparent.py.                            *)
(*                                                                         *)
(* A pixel is a tuple <<r, g, b, a>> of bytes.  An array is a sequence of  *)
(* rows, each a sequence of pixels, so that its height is the number of    *)
(* rows and its width the length of a row (numpy shape[:2]).               *)
(* Python indexes from 0, the sequences here from 1.                       *)
(***************************************************************************)
EXTENDS Integers, Sequences, FiniteSets, TLC

VARIABLES
    input,        \* content of the file at input_path
    pc,           \* position of remove_grid_background
    data,         \* np.array(img), the loaded RGBA array
    height,       \* data.shape[0]
    width,        \* data.shape[1]
    bg_color,     \* 4 * np.mean(corner_colors, axis=0): the corner sums
    result_data,  \* the working buffer
    result_img,   \* the image built from the buffer, then filtered
    output_file,  \* content of the file at output_path
    order,        \* iteration order of IMAGES in main()
    source,       \* files of SOURCE_DIR, by source name
    target,       \* files of TARGET_DIR, by source name of the entry
    idx,          \* number of entries of IMAGES main() has taken
    visits,       \* per entry, how often the loop body ran for it
    attempts,     \* per entry, how often remove_background was called
    mpc           \* position of main()

gridVars  == <<input, pc, data, height, width, bg_color, result_data,
               result_img, output_file>>
batchVars == <<order, source, target, idx, visits, attempts, mpc>>
vars      == <<input, pc, data, height, width, bg_color, result_data,
               result_img, output_file, order, source, target, idx,
               visits, attempts, mpc>>

(***************************************************************************)
(* Program constants of remove_background_simple.py                        *)
(***************************************************************************)
tolerance        == 40    \* colour-distance threshold
LightFloor       == 180   \* mean brightness of a "light coloured" pixel
VeryLight        == 240   \* mean brightness of a "very light" pixel
LineLight        == 220   \* mean brightness counted in a run
LineClear        == 200   \* mean brightness cleared in a detected line
BlueMargin       == 10    \* blue-dominance margin
ColorVariation   == 15    \* channel spread of a coloured pixel
KernelSide       == 5     \* ImageFilter.SMOOTH_MORE is a 5x5 kernel
KernelScale      == 100   \* its scale
fuzz             == 30    \* remove_background(..., fuzz=30)

\* a file: absent, not decodable as an image, or an image with its pixels
None           == [kind |-> "absent", px |-> <<>>]
Undecodable    == [kind |-> "garbage", px |-> <<>>]
ImageFile(arr) == [kind |-> "image", px |-> arr]
Transparent == <<0, 0, 0, 0>>
Opaque(c) == <<c[1], c[2], c[3], 255>>
Clear(c)  == <<c[1], c[2], c[3], 0>>

(***************************************************************************)
(* Arithmetic helpers                                                      *)
(***************************************************************************)
Max2(a, b) == IF a >= b THEN a ELSE b
Min2(a, b) == IF a <= b THEN a ELSE b
Abs(a)     == IF a < 0 THEN -a ELSE a
Sq(a)      == a * a

\* np.array of shape (h, w, 4)
Height(arr) == Len(arr)
Width(arr)  == IF Len(arr) = 0 THEN 0 ELSE Len(arr[1])

\* 3 * np.mean(pixel[:3]): the comparisons mean > t are made as sum > 3 * t
Sum3(p) == p[1] + p[2] + p[3]
MeanAbove(p, t) == Sum3(p) > 3 * t

\* img.convert("RGBA"): an RGB pixel gains alpha 255, an RGBA pixel is kept
ConvertPixel(p) == IF Len(p) = 3 THEN <<p[1], p[2], p[3], 255>> ELSE p
ConvertRGBA(img) ==
    [y \in 1..Len(img) |-> [x \in 1..Len(img[y]) |-> ConvertPixel(img[y][x])]]

(***************************************************************************)
(* Background estimate, lines 35-44.  The mean is kept multiplied by 4.    *)
(***************************************************************************)
\* the bottom-right corner left out of the sum
\* the bottom-right sample taken one pixel inside the corner
CornerSumInset(arr, h, w) ==
    [c \in 1..4 |-> arr[1][1][c] + arr[1][w][c] + arr[h][1][c]
                       + arr[Max2(h - 1, 1)][Max2(w - 1, 1)][c]]

CornerSumThree(arr, h, w) ==
    [c \in 1..4 |-> arr[1][1][c] + arr[1][w][c] + arr[h][1][c]]

CornerSum(arr, h, w) ==
    [c \in 1..4 |-> arr[1][1][c] + arr[1][w][c] + arr[h][1][c] + arr[h][w][c]]

(***************************************************************************)
(* Colour-distance mask, lines 51-66.                                      *)
(* color_diff < tolerance  <=>  16 * color_diff^2 < 16 * tolerance^2       *)
(***************************************************************************)
ColorDiffSq16(p, bg) ==
    Sq(4 * p[1] - bg[1]) + Sq(4 * p[2] - bg[2]) + Sq(4 * p[3] - bg[3])

\* half the tolerance
CloseToBackgroundTight(p, bg) == ColorDiffSq16(p, bg) < 4 * Sq(tolerance)

CloseToBackground(p, bg) == ColorDiffSq16(p, bg) < 16 * Sq(tolerance)

\* a background pixel loses its alpha and keeps its RGB
MaskPixelAlphaOnly(p, bg) ==
    IF CloseToBackground(p, bg)
    THEN IF MeanAbove(p, LightFloor) THEN Clear(p) ELSE p
    ELSE IF MeanAbove(p, VeryLight) THEN Clear(p) ELSE p

\* the "light coloured" check made with the near-white threshold
MaskPixelNearWhiteOnly(p, bg) ==
    IF CloseToBackground(p, bg)
    THEN IF MeanAbove(p, VeryLight) THEN Transparent ELSE p
    ELSE IF MeanAbove(p, VeryLight) THEN Transparent ELSE p

\* the "light coloured" check made with a floor above the near-white ceiling
MaskPixelHighFloor(p, bg) ==
    IF CloseToBackground(p, bg)
    THEN IF MeanAbove(p, VeryLight + 10) THEN Transparent ELSE p
    ELSE IF MeanAbove(p, VeryLight) THEN Transparent ELSE p

MaskPixel(p, bg) ==
    IF CloseToBackground(p, bg)
    THEN IF MeanAbove(p, LightFloor) THEN Transparent ELSE p
    ELSE IF MeanAbove(p, VeryLight) THEN Transparent ELSE p

MaskPass(arr, bg, h, w) ==
    [y \in 1..h |-> [x \in 1..w |-> MaskPixel(arr[y][x], bg)]]

(***************************************************************************)
(* Grid-line suppression, lines 71-105.                                    *)
(* A line (row or column) is a sequence of pixels of length n.             *)
(* count > n * 0.6 is compared as 10 * count > 6 * n: the two agree for     *)
(* every n below 40 in double arithmetic.                                  *)
(***************************************************************************)
\* the light test made without the alpha test
IsLightAnyAlpha(p) == MeanAbove(p, LineLight)

IsLight(p) == MeanAbove(p, LineLight) /\ p[4] > 0

RECURSIVE ScanLineNoReset(_, _, _)
\* the count kept when a pixel fails the light test
ScanLineNoReset(line, k, count) ==
    IF k > Len(line) THEN FALSE
    ELSE LET c == IF IsLight(line[k]) THEN count + 1 ELSE count
         IN  IF 10 * c > 6 * Len(line) THEN TRUE
             ELSE ScanLineNoReset(line, k + 1, c)

RECURSIVE ScanLine(_, _, _)
\* the inner loop from index k on with light_pixel_count = count:
\* TRUE iff the loop reaches the "long sequence" branch
ScanLine(line, k, count) ==
    IF k > Len(line) THEN FALSE
    ELSE LET c == IF IsLight(line[k]) THEN count + 1 ELSE 0
         IN  IF 10 * c > 6 * Len(line) THEN TRUE
             ELSE ScanLine(line, k + 1, c)

\* a detected line cleared whole, the dark pixels with it
ClearLineWhole(line) == [k \in 1..Len(line) |-> Transparent]

\* a detected line painted white instead of cleared
ClearLinePaintWhite(line) ==
    [k \in 1..Len(line) |->
        IF MeanAbove(line[k], LineClear) THEN <<255, 255, 255, 255>> ELSE line[k]]

ClearLine(line) ==
    [k \in 1..Len(line) |->
        IF MeanAbove(line[k], LineClear) THEN Transparent ELSE line[k]]

SuppressLine(line) == IF ScanLine(line, 1, 0) THEN ClearLine(line) ELSE line

\* the break leaving the loop over the rows as well
RowPassBreakOuter(arr, h, w) ==
    [y \in 1..h |->
        IF \E y2 \in 1..(y - 1) : ScanLine([x \in 1..w |-> arr[y2][x]], 1, 0)
        THEN [x \in 1..w |-> arr[y][x]]
        ELSE SuppressLine([x \in 1..w |-> arr[y][x]])]

RowPass(arr, h, w) ==
    [y \in 1..h |-> SuppressLine([x \in 1..w |-> arr[y][x]])]

Column(arr, h, x) == [y \in 1..h |-> arr[y][x]]

ColumnPass(arr, h, w) ==
    [y \in 1..h |-> [x \in 1..w |-> SuppressLine(Column(arr, h, x))[y]]]

(***************************************************************************)
(* Foreground protection, lines 109-125.  r, g, b are numpy uint8 scalars: *)
(* r + 10 is an int64 under NumPy 1 and a wrapping uint8 under NumPy 2.    *)
(***************************************************************************)
AddMargin(v, wraps) == IF wraps THEN (v + BlueMargin) % 256 ELSE v + BlueMargin

BlueDominant(p, wraps) ==
    p[3] > AddMargin(p[1], wraps) /\ p[3] > AddMargin(p[2], wraps)

Spread(p) == Max2(p[1], Max2(p[2], p[3])) - Min2(p[1], Min2(p[2], p[3]))

HasColorVariation(p) == Spread(p) > ColorVariation

\* the pixel the pass tests is the one of the working buffer
ProtectPixel(p, orig, wraps) ==
    IF BlueDominant(p, wraps)
    THEN IF p[4] = 0 THEN orig ELSE p
    ELSE IF HasColorVariation(p)
         THEN IF p[4] = 0 THEN orig ELSE p
         ELSE p

ProtectPass(arr, orig, h, w, wraps) ==
    [y \in 1..h |-> [x \in 1..w |-> ProtectPixel(arr[y][x], orig[y][x], wraps)]]

(***************************************************************************)
(* Smoothing, lines 131-135: Image.filter(ImageFilter.SMOOTH_MORE) runs    *)
(* the 5x5 kernel below over every band of the RGBA image.  An image       *)
(* smaller than the kernel is copied; the two outermost rows and columns   *)
(* are copied.  The library accumulates in single precision and adds 0.5   *)
(* before truncating, so that a sum exactly half way rounds either way.    *)
(***************************************************************************)
KernelWeight(dy, dx) ==
    IF dy = 0 /\ dx = 0 THEN 44
    ELSE IF Abs(dy) <= 1 /\ Abs(dx) <= 1 THEN 5
    ELSE 1

Offsets == {-2, -1, 0, 1, 2}

RECURSIVE SumOver(_, _)
SumOver(S, f) ==
    IF S = {} THEN 0
    ELSE LET e == CHOOSE e \in S : TRUE
         IN  f[e] + SumOver(S \ {e}, f)

Weighted(arr, y, x, c) ==
    SumOver(Offsets \X Offsets,
            [d \in Offsets \X Offsets |->
                KernelWeight(d[1], d[2]) * arr[y + d[1]][x + d[2]][c]])

RoundScale(s, halfUp) ==
    IF s % KernelScale = KernelScale \div 2 /\ ~halfUp
    THEN s \div KernelScale
    ELSE (s + KernelScale \div 2) \div KernelScale

IsBorder(y, x, h, w) ==
    y <= 2 \/ y > h - 2 \/ x <= 2 \/ x > w - 2

\* a filter that returns only the pixels the kernel fits around
SmoothMoreCropped(arr, halfUp) ==
    LET h == Height(arr)
        w == Width(arr)
    IN  IF w < KernelSide \/ h < KernelSide THEN arr
        ELSE [y \in 1..(h - 4) |-> [x \in 1..(w - 4) |->
                [c \in 1..4 |->
                    RoundScale(Weighted(arr, y + 2, x + 2, c), halfUp)]]]

SmoothMore(arr, halfUp) ==
    LET h == Height(arr)
        w == Width(arr)
    IN  IF w < KernelSide \/ h < KernelSide THEN arr
        ELSE [y \in 1..h |-> [x \in 1..w |->
                IF IsBorder(y, x, h, w) THEN arr[y][x]
                ELSE [c \in 1..4 |->
                        RoundScale(Weighted(arr, y, x, c), halfUp)]]]

(***************************************************************************)
(* remove_background of scripts/make-transparent.py, lines 23-59           *)
(***************************************************************************)
FloorMean(arr, h, w, c) ==
    (arr[1][1][c] + arr[1][w][c] + arr[h][1][c] + arr[h][w][c]) \div 4

\* the comparison made with <= fuzz
SimilarToBackgroundInclusive(p, bg) ==
    /\ Abs(p[1] - bg[1]) <= fuzz
    /\ Abs(p[2] - bg[2]) <= fuzz
    /\ Abs(p[3] - bg[3]) <= fuzz

SimilarToBackground(p, bg) ==
    /\ Abs(p[1] - bg[1]) < fuzz
    /\ Abs(p[2] - bg[2]) < fuzz
    /\ Abs(p[3] - bg[3]) < fuzz

RemoveBackground(img) ==
    LET arr == ConvertRGBA(img)
        h   == Height(arr)
        w   == Width(arr)
        bg  == [c \in 1..3 |-> FloorMean(arr, h, w, c)]
    IN  [y \in 1..h |-> [x \in 1..w |->
            IF SimilarToBackground(arr[y][x], bg)
            THEN <<255, 255, 255, 0>>
            ELSE arr[y][x]]]

(***************************************************************************)
(* Input images                                                            *)
(***************************************************************************)
White     == <<250, 250, 250>>
GridGray  == <<230, 230, 230>>
Blue      == <<30, 60, 200>>
Dark      == <<20, 20, 20>>
PaleGray  == <<225, 225, 225>>
PaleCyan  == <<230, 250, 250>>
PaleBlue  == <<210, 215, 240>>
MidGray   == <<190, 190, 190>>

\* RGBA images of these shapes, every pixel drawn from TinyPalette
TinyShapes  == {<<0, 0>>, <<1, 0>>, <<1, 1>>, <<1, 2>>, <<2, 1>>, <<2, 2>>,
                <<1, 3>>, <<3, 1>>}
TinyPalette == {Opaque(White), Opaque(Blue), Opaque(Dark), Opaque(PaleGray),
                Opaque(PaleCyan), Clear(PaleBlue)}
TinyImages  ==
    UNION {[1..s[1] -> [1..s[2] -> TinyPalette]] : s \in TinyShapes}

\* RGB scenes: a rectangular blob of one colour on a ground of another
MaxSide == 5
MaxBlob == 4
Grounds == {White, Dark, MidGray}
Inks    == {Blue, PaleBlue, PaleCyan, PaleGray, MidGray, Dark, White}

Scene(h, w, ground, ink, y0, x0, bh, bw) ==
    [y \in 1..h |-> [x \in 1..w |->
        IF y >= y0 /\ y < y0 + bh /\ x >= x0 /\ x < x0 + bw
        THEN ink ELSE ground]]

Scenes ==
    {Scene(h, w, ground, ink, y0, x0, bh, bw) :
        h \in KernelSide..MaxSide, w \in KernelSide..MaxSide,
        ground \in Grounds, ink \in Inks,
        y0 \in 1..MaxSide, x0 \in 1..MaxSide,
        bh \in 1..MaxBlob, bw \in 1..MaxBlob}

\* the grid scenario: white ground, 2-pixel grid lines, a centred blue square
GridSide    == 11
SquareSide  == 5
GridPeriods == {4, 6}

OnGridLine(k, off, period) == (k - 1 + period - off) % period < 2

GridScene(n, off, period) ==
    LET lo == (n - SquareSide) \div 2 + 1
        hi == lo + SquareSide - 1
    IN  [y \in 1..n |-> [x \in 1..n |->
            IF y >= lo /\ y <= hi /\ x >= lo /\ x <= hi THEN Blue
            ELSE IF OnGridLine(y, off, period) \/ OnGridLine(x, off, period)
                 THEN GridGray
                 ELSE White]]

GridScenes ==
    {GridScene(n, off, period) :
        n \in (GridSide - 1)..GridSide, off \in 0..3, period \in GridPeriods}

\* RGBA strips: a line of StripLen pixels drawn from StripPalette, lying on
\* or standing beside a dark line
StripLen     == 5
Silver       == <<210, 210, 210>>
StripPalette == {Opaque(PaleGray), Opaque(Dark), Opaque(Silver), Clear(PaleBlue)}
StripLines   == [1..StripLen -> StripPalette]

RowStrips    == {<<line, [k \in 1..StripLen |-> Opaque(Dark)]>> : line \in StripLines}
ColumnStrips == {[k \in 1..StripLen |-> <<line[k], Opaque(Dark)>>] : line \in StripLines}

Inputs ==
    {Undecodable} \cup
    {ImageFile(i) : i \in TinyImages \cup Scenes \cup GridScenes
                              \cup RowStrips \cup ColumnStrips}

(***************************************************************************)
(* main() of scripts/make-transparent.py                                   *)
(***************************************************************************)
IMAGES == <<"Logo.png", "Dog.jpeg", "Cat.jpeg", "Bird.jpeg">>
Names  == {IMAGES[k] : k \in 1..Len(IMAGES)}

Orders == {o \in [1..Len(IMAGES) -> Names] :
              \A k, l \in 1..Len(IMAGES) : o[k] = o[l] => k = l}

BatchImages == {<<<<White, White>>>>, <<<<White, Blue>>>>, <<<<Dark>>, <<Blue>>>>}
SourceFiles == {None, Undecodable} \cup {ImageFile(i) : i \in BatchImages}

idle == "idle"

(***************************************************************************)
(* remove_grid_background                                                  *)
(***************************************************************************)
Init ==
    /\ input \in Inputs
    /\ pc = "load"
    /\ data = <<>>
    /\ height = 0
    /\ width = 0
    /\ bg_color = <<0, 0, 0, 0>>
    /\ result_data = <<>>
    /\ result_img = <<>>
    /\ output_file = None
    /\ order = IMAGES
    /\ source = [n \in Names |-> None]
    /\ target = [n \in Names |-> None]
    /\ idx = 0
    /\ visits = [n \in Names |-> 0]
    /\ attempts = [n \in Names |-> 0]
    /\ mpc = idle

\* lines 17-33
Load ==
    /\ pc = "load"
    /\ input.kind = "image"
    /\ data' = ConvertRGBA(input.px)
    /\ result_data' = ConvertRGBA(input.px)
    /\ height' = Height(ConvertRGBA(input.px))
    /\ width' = Width(ConvertRGBA(input.px))
    /\ pc' = "corners"
    /\ UNCHANGED <<input, bg_color, result_img, output_file, batchVars>>

\* line 17: Image.open raises
LoadFails ==
    /\ pc = "load"
    /\ input.kind # "image"
    /\ pc' = "failed"
    /\ UNCHANGED <<input, data, height, width, bg_color, result_data,
                   result_img, output_file, batchVars>>

\* lines 36-44
Corners ==
    /\ pc = "corners"
    /\ height > 0 /\ width > 0
    /\ bg_color' = CornerSum(data, height, width)
    /\ pc' = "mask"
    /\ UNCHANGED <<input, data, height, width, result_data, result_img,
                   output_file, batchVars>>

\* the output file created before the corners are read
CornersFailAfterCreate ==
    /\ pc = "corners"
    /\ (height = 0 \/ width = 0)
    /\ pc' = "failed"
    /\ output_file' = ImageFile(<<>>)
    /\ UNCHANGED <<input, data, height, width, bg_color, result_data,
                   result_img, batchVars>>

\* line 37: data[0, 0] raises IndexError on an empty array
CornersFail ==
    /\ pc = "corners"
    /\ (height = 0 \/ width = 0)
    /\ pc' = "failed"
    /\ UNCHANGED <<input, data, height, width, bg_color, result_data,
                   result_img, output_file, batchVars>>

\* lines 51-66
Mask ==
    /\ pc = "mask"
    /\ result_data' = MaskPass(data, bg_color, height, width)
    /\ pc' = "rows"
    /\ UNCHANGED <<input, data, height, width, bg_color, result_img,
                   output_file, batchVars>>

\* lines 72-87
Rows ==
    /\ pc = "rows"
    /\ result_data' = RowPass(result_data, height, width)
    /\ pc' = "cols"
    /\ UNCHANGED <<input, data, height, width, bg_color, result_img,
                   output_file, batchVars>>

\* lines 90-105
Cols ==
    /\ pc = "cols"
    /\ result_data' = ColumnPass(result_data, height, width)
    /\ pc' = "protect"
    /\ UNCHANGED <<input, data, height, width, bg_color, result_img,
                   output_file, batchVars>>

\* lines 109-125
Protect ==
    /\ pc = "protect"
    /\ \E wraps \in BOOLEAN :
          result_data' = ProtectPass(result_data, data, height, width, wraps)
    /\ pc' = "smooth"
    /\ UNCHANGED <<input, data, height, width, bg_color, result_img,
                   output_file, batchVars>>

\* lines 131-135
Smooth ==
    /\ pc = "smooth"
    /\ \E halfUp \in BOOLEAN : result_img' = SmoothMore(result_data, halfUp)
    /\ pc' = "save"
    /\ UNCHANGED <<input, data, height, width, bg_color, result_data,
                   output_file, batchVars>>

\* lines 138-141
Save ==
    /\ pc = "save"
    /\ output_file' = ImageFile(result_img)
    /\ pc' = "done"
    /\ UNCHANGED <<input, data, height, width, bg_color, result_data,
                   result_img, batchVars>>

Next ==
    \/ Load
    \/ LoadFails
    \/ Corners
    \/ CornersFail
    \/ Mask
    \/ Rows
    \/ Cols
    \/ Protect
    \/ Smooth
    \/ Save

Spec == Init /\ [][Next]_vars

\* The function is straight-line code: while it has neither returned nor
\* raised, the statement it stands at is executed.  Every step of Next moves
\* pc, and some step of Next is possible exactly when pc is not a final
\* value, so this is weak fairness of Next, stated on pc alone.
Statements ==
    {"load", "corners", "mask", "rows", "cols", "protect", "smooth", "save",
     "done", "failed"}

Advance ==
    /\ pc \notin {"done", "failed", idle}
    /\ \E p \in Statements \ {pc} : pc' = p

FairSpec == Spec /\ WF_pc(Advance)

(***************************************************************************)
(* main(), lines 61-85                                                     *)
(***************************************************************************)
BatchInit ==
    /\ input = Undecodable
    /\ pc = idle
    /\ data = <<>>
    /\ height = 0
    /\ width = 0
    /\ bg_color = <<0, 0, 0, 0>>
    /\ result_data = <<>>
    /\ result_img = <<>>
    /\ output_file = None
    /\ order \in Orders
    /\ source \in [Names -> SourceFiles]
    /\ target = [n \in Names |-> None]
    /\ idx = 0
    /\ visits = [n \in Names |-> 0]
    /\ attempts = [n \in Names |-> 0]
    /\ mpc = "loop"

\* lines 72-74: the source is missing
MainSkip ==
    /\ mpc = "loop"
    /\ idx < Len(order)
    /\ source[order[idx + 1]].kind = "absent"
    /\ visits' = [visits EXCEPT ![order[idx + 1]] = @ + 1]
    /\ idx' = idx + 1
    /\ UNCHANGED <<gridVars, order, source, target, attempts, mpc>>

\* the exception leaves the loop
MainErrorPropagates ==
    /\ mpc = "loop"
    /\ idx < Len(order)
    /\ source[order[idx + 1]].kind = "garbage"
    /\ visits' = [visits EXCEPT ![order[idx + 1]] = @ + 1]
    /\ attempts' = [attempts EXCEPT ![order[idx + 1]] = @ + 1]
    /\ mpc' = "raised"
    /\ UNCHANGED <<gridVars, order, source, target, idx>>

\* lines 77-80: remove_background raises, the exception is reported
MainError ==
    /\ mpc = "loop"
    /\ idx < Len(order)
    /\ source[order[idx + 1]].kind = "garbage"
    /\ visits' = [visits EXCEPT ![order[idx + 1]] = @ + 1]
    /\ attempts' = [attempts EXCEPT ![order[idx + 1]] = @ + 1]
    /\ idx' = idx + 1
    /\ UNCHANGED <<gridVars, order, source, target, mpc>>

\* lines 77-78: remove_background saves the target
MainProcess ==
    /\ mpc = "loop"
    /\ idx < Len(order)
    /\ source[order[idx + 1]].kind = "image"
    /\ visits' = [visits EXCEPT ![order[idx + 1]] = @ + 1]
    /\ attempts' = [attempts EXCEPT ![order[idx + 1]] = @ + 1]
    /\ target' = [target EXCEPT
                     ![order[idx + 1]] =
                         ImageFile(RemoveBackground(source[order[idx + 1]].px))]
    /\ idx' = idx + 1
    /\ UNCHANGED <<gridVars, order, source, mpc>>

\* lines 82-85
MainEnd ==
    /\ mpc = "loop"
    /\ idx = Len(order)
    /\ mpc' = "done"
    /\ UNCHANGED <<gridVars, order, source, target, idx, visits, attempts>>

BatchNext ==
    \/ MainSkip
    \/ MainError
    \/ MainProcess
    \/ MainEnd

BatchSpec == BatchInit /\ [][BatchNext]_vars

\* the loop is sequential code: it keeps running until it returns
FairBatchSpec == BatchSpec /\ WF_vars(BatchNext)

(***************************************************************************)
(* The same loop over sources chosen to exercise remove_background: greys  *)
(* 29 and 30 away from the estimate, corners whose mean is not a whole     *)
(* number, a colour close in two channels only, pixels that are not        *)
(* opaque, and RGB (JPEG) as well as RGBA sources.                         *)
(***************************************************************************)
FuzzLen == 3

Gray(v) == <<v, v, v>>

FuzzGrays == {Gray(255), Gray(250), Gray(201), Gray(196), Gray(195)}

FuzzPalette ==
    {Opaque(g) : g \in FuzzGrays}
        \cup {<<250, 250, 200, 255>>, <<230, 230, 230, 128>>,
              <<30, 60, 200, 128>>}

FuzzImages ==
    {<<line>> : line \in [1..FuzzLen -> FuzzPalette]}
        \cup {<<line>> : line \in [1..FuzzLen -> FuzzGrays]}
        \cup [1..2 -> [1..2 -> FuzzPalette]]

FuzzInit ==
    /\ input = Undecodable
    /\ pc = idle
    /\ data = <<>>
    /\ height = 0
    /\ width = 0
    /\ bg_color = <<0, 0, 0, 0>>
    /\ result_data = <<>>
    /\ result_img = <<>>
    /\ output_file = None
    /\ order = IMAGES
    /\ \E img \in FuzzImages, other \in {None, Undecodable} :
          source = [n \in Names |->
                       IF n = IMAGES[1] THEN ImageFile(img)
                       ELSE IF n = IMAGES[2] THEN other
                       ELSE IF n = IMAGES[3] THEN Undecodable
                       ELSE None]
    /\ target = [n \in Names |-> None]
    /\ idx = 0
    /\ visits = [n \in Names |-> 0]
    /\ attempts = [n \in Names |-> 0]
    /\ mpc = "loop"

FuzzSpec == FuzzInit /\ [][BatchNext]_vars

(***************************************************************************)
(* Properties of remove_grid_background                                    *)
(***************************************************************************)
Loaded   == pc \notin {"load", "failed", idle}
Finished == pc = "done"

\* the input as an RGBA array, and the pixels of the written file
Original == ConvertRGBA(input.px)
Output   == output_file.px

Positions == {yx \in (1..height) \X (1..width) : TRUE}
RGB(p)    == <<p[1], p[2], p[3]>>
OriginalAt(yx) == Original[yx[1]][yx[2]]
OutputAt(yx)   == Output[yx[1]][yx[2]]
BufferAt(yx)   == result_data[yx[1]][yx[2]]

\* C1: in the output of remove_grid_background every pixel of alpha 255
\* has the RGB of the input pixel at its position.
C1_OpaqueOutputKeepsRGB ==
    Finished =>
        \A yx \in Positions :
            OutputAt(yx)[4] = 255 => RGB(OutputAt(yx)) = RGB(OriginalAt(yx))

\* C2: the working buffer after every pass, the filtered image and the
\* written file have the height of the input and, row by row, its width.
SameShape(arr, img) ==
    /\ Len(arr) = Len(img)
    /\ \A y \in 1..Len(img) : Len(arr[y]) = Len(img[y])

C2_DimensionsKept ==
    /\ Loaded => SameShape(result_data, input.px)
    /\ pc \in {"save", "done"} => SameShape(result_img, input.px)
    /\ Finished => SameShape(Output, input.px)

C2_Witness ==
    /\ Finished
    /\ height >= KernelSide /\ width >= KernelSide
    /\ Output # Original
    /\ result_data # Original
    /\ Output # result_data

\* C3: when every pixel on the rim of the image has a channel spread of at
\* most 15 and the input is opaque, every pixel whose channel spread
\* exceeds 15 has alpha 255 in the output.
OnRim(yx) == yx[1] \in {1, height} \/ yx[2] \in {1, width}

BlobInLowSpreadGround ==
    /\ \A yx \in Positions : OriginalAt(yx)[4] = 255
    /\ \A yx \in Positions : OnRim(yx) => ~HasColorVariation(OriginalAt(yx))
    /\ \E yx \in Positions : HasColorVariation(OriginalAt(yx))

C3_SaturatedBlobStaysOpaque ==
    (Finished /\ BlobInLowSpreadGround) =>
        \A yx \in Positions :
            HasColorVariation(OriginalAt(yx)) => OutputAt(yx)[4] = 255

\* C4 as claimed: when the four corners have one colour C and no pixel of
\* another colour lies within the tolerance of C, every pixel of colour C
\* has alpha 0 in the output and every other pixel its input alpha.
CornerColor == RGB(Original[1][1])

UniformCorners ==
    /\ RGB(Original[1][width]) = CornerColor
    /\ RGB(Original[height][1]) = CornerColor
    /\ RGB(Original[height][width]) = CornerColor

WithinTolerance(p, c) ==
    Sq(p[1] - c[1]) + Sq(p[2] - c[2]) + Sq(p[3] - c[3]) < Sq(tolerance)

CornerColorIsolated ==
    /\ UniformCorners
    /\ \A yx \in Positions :
          RGB(OriginalAt(yx)) # CornerColor
              => ~WithinTolerance(OriginalAt(yx), CornerColor)

C4_CornerColorRemovedAnyColor ==
    (Finished /\ CornerColorIsolated) =>
        \A yx \in Positions :
            IF RGB(OriginalAt(yx)) = CornerColor
            THEN OutputAt(yx)[4] = 0
            ELSE OutputAt(yx)[4] = OriginalAt(yx)[4]

\* C4 as amended: when moreover the mean brightness of C exceeds 180, then
\* in the buffer handed to the smoothing step every pixel of colour C is
\* transparent and every pixel of another colour whose mean brightness is
\* at most 200 is the input pixel.
Protected == pc \in {"smooth", "save", "done"}

C4_LightCornerColorRemoved ==
    (Protected /\ CornerColorIsolated /\ MeanAbove(CornerColor, LightFloor)) =>
        \A yx \in Positions :
            IF RGB(OriginalAt(yx)) = CornerColor
            THEN BufferAt(yx)[4] = 0
            ELSE ~MeanAbove(OriginalAt(yx), LineClear)
                     => BufferAt(yx) = OriginalAt(yx)

C4_Witness ==
    /\ Protected /\ CornerColorIsolated /\ MeanAbove(CornerColor, LightFloor)
    /\ \E yx \in Positions :
          /\ RGB(OriginalAt(yx)) # CornerColor
          /\ OriginalAt(yx)[4] = 255
          /\ ~MeanAbove(OriginalAt(yx), LineClear)
    /\ \E yx \in Positions :
          /\ ~OnRim(yx)
          /\ OriginalAt(yx) = Opaque(CornerColor)
          /\ BufferAt(yx) = Transparent

\* C5 as claimed: an image of one colour comes out with alpha 0 everywhere.
OneColor ==
    /\ height > 0 /\ width > 0
    /\ \A yx \in Positions : OriginalAt(yx) = Original[1][1]

C5_OneColorAllTransparent ==
    (Finished /\ OneColor) => \A yx \in Positions : OutputAt(yx)[4] = 0

\* C5 as amended: an image of one colour whose mean brightness exceeds 180
\* comes out with alpha 0 everywhere.
C5_OneLightColorAllTransparent ==
    (Finished /\ OneColor /\ MeanAbove(Original[1][1], LightFloor)) =>
        \A yx \in Positions : OutputAt(yx)[4] = 0

C5_Witness ==
    /\ Finished /\ OneColor
    /\ Original[1][1] = Opaque(MidGray)
    /\ height >= KernelSide /\ width >= KernelSide
    /\ \A yx \in Positions : OutputAt(yx)[4] = 0

\* C7: an input that is no image, or an image of height or width 0, makes
\* the run fail before the corners are averaged and leaves no file at
\* output_path; a file exists at output_path only once every pass is done,
\* and then it is the filtered image.
BadInput ==
    \/ input.kind # "image"
    \/ Len(input.px) = 0
    \/ Len(input.px[1]) = 0

C7_NoOutputOnBadInput ==
    /\ BadInput => (output_file = None /\ pc \in {"load", "corners", "failed"})
    /\ output_file # None => (Finished /\ output_file = ImageFile(result_img))
    /\ pc = "failed" => BadInput

C7_Witness ==
    /\ pc = "failed"
    /\ input.kind = "image"
    /\ Len(input.px) > 0
    /\ output_file = None

\* C8 as claimed: in the grid scenario every white and every grid-line
\* pixel has alpha 0 in the output, and every pixel of the blue square is
\* the opaque input pixel.
IsGridScenario == input.kind = "image" /\ input.px \in GridScenes

IsBlue(yx) == OriginalAt(yx) = Opaque(Blue)

C8_GridScenarioExact ==
    (Finished /\ IsGridScenario) =>
        \A yx \in Positions :
            IF IsBlue(yx)
            THEN OutputAt(yx) = Opaque(Blue)
            ELSE OutputAt(yx)[4] = 0

\* C8 as amended: in the grid scenario the buffer handed to the smoothing
\* step has every white and every grid-line pixel transparent and every
\* pixel of the blue square opaque and unchanged; in the output this still
\* holds of the white and grid-line pixels more than 2 pixels away from
\* the square and of the blue pixels more than 2 pixels inside it.
Around(yx) ==
    {zw \in Positions : Abs(zw[1] - yx[1]) <= 2 /\ Abs(zw[2] - yx[2]) <= 2}

C8_GridScenarioAwayFromEdge ==
    (Finished /\ IsGridScenario) =>
        \A yx \in Positions :
            IF IsBlue(yx)
            THEN /\ BufferAt(yx) = Opaque(Blue)
                 /\ (\A zw \in Around(yx) : IsBlue(zw))
                        => OutputAt(yx) = Opaque(Blue)
            ELSE /\ BufferAt(yx) = Transparent
                 /\ (\A zw \in Around(yx) : ~IsBlue(zw))
                        => OutputAt(yx)[4] = 0

C8_Witness ==
    /\ Finished /\ IsGridScenario
    /\ \E yx \in Positions :
          /\ OriginalAt(yx) = Opaque(GridGray)
          /\ \E zw \in Around(yx) : IsBlue(zw)
          /\ OutputAt(yx)[4] > 0
    /\ \E yx \in Positions :
          /\ IsBlue(yx)
          /\ \A zw \in Around(yx) : IsBlue(zw)
          /\ OutputAt(yx) = Opaque(Blue)
    /\ \E yx \in Positions :
          /\ IsBlue(yx)
          /\ OutputAt(yx)[4] \in 1..254

\* C10: after the mask pass a pixel of the buffer is transparent when its
\* distance to the mean of the corners is below 40 and its mean brightness
\* above 180, or its mean brightness is above 240 (whatever its distance);
\* every other pixel is the input pixel.
CornerTotal(c) ==
    Original[1][1][c] + Original[1][width][c]
        + Original[height][1][c] + Original[height][width][c]

\* distance^2 < 40^2, both sides multiplied by 16
DistanceBelowTolerance(p) ==
    Sq(4 * p[1] - CornerTotal(1)) + Sq(4 * p[2] - CornerTotal(2))
        + Sq(4 * p[3] - CornerTotal(3)) < 16 * 1600

MaskRule(p) ==
    \/ DistanceBelowTolerance(p) /\ Sum3(p) > 3 * 180
    \/ Sum3(p) > 3 * 240

C10_MaskRule ==
    pc = "rows" =>
        \A yx \in Positions :
            BufferAt(yx) =
                IF MaskRule(OriginalAt(yx)) THEN Transparent ELSE OriginalAt(yx)

C10_Witness ==
    /\ pc = "rows"
    /\ \E yx \in Positions :
          /\ DistanceBelowTolerance(OriginalAt(yx))
          /\ Sum3(OriginalAt(yx)) > 3 * 240
          /\ OriginalAt(yx)[4] = 255
          /\ BufferAt(yx) = Transparent
    /\ \E yx \in Positions :
          /\ ~DistanceBelowTolerance(OriginalAt(yx))
          /\ Sum3(OriginalAt(yx)) > 3 * 180
          /\ BufferAt(yx) = OriginalAt(yx)

(***************************************************************************)
(* Properties of main()                                                    *)
(***************************************************************************)
\* C9: in every order of IMAGES and whichever sources are missing or raise,
\* main() reaches its end, having run the loop body once for every entry;
\* an entry whose source is an image had remove_background called once and
\* its target is the result for that source alone, the other entries have
\* no target.
EntryHandled(n) ==
    /\ visits[n] = 1
    /\ IF source[n].kind = "image"
       THEN /\ attempts[n] = 1
            /\ target[n] = ImageFile(RemoveBackground(source[n].px))
       ELSE target[n] = None

EntryPending(n) == visits[n] = 0 /\ attempts[n] = 0 /\ target[n] = None

C9_LoopState ==
    /\ mpc \in {"loop", "done"}
    /\ \A k \in 1..Len(order) :
          IF k <= idx THEN EntryHandled(order[k]) ELSE EntryPending(order[k])
    /\ mpc = "done" => idx = Len(order)

C9_SiblingsUnaffected == <>(mpc = "done") /\ []C9_LoopState

C9_Witness ==
    /\ mpc = "done"
    /\ \E k, l, m \in 1..Len(order) :
          /\ k < l
          /\ source[order[k]].kind = "garbage"
          /\ source[order[l]].kind = "image"
          /\ target[order[l]].kind = "image"
          /\ target[order[l]].px # ConvertRGBA(source[order[l]].px)
          /\ source[order[m]].kind = "absent"

(***************************************************************************)
(* Properties of the passes of remove_grid_background                      *)
(***************************************************************************)
NextBufferAt(yx) == result_data'[yx[1]][yx[2]]

\* the buffer the mask pass hands to the row pass
Masked == MaskPass(data, bg_color, height, width)

\* C11: the Protector step sets every pixel that is transparent when it
\* starts, was opaque in the input and whose input RGB is blue-dominant by
\* more than 10 or has a channel spread above 15 back to the input pixel.
InputBlueDominant(p) == p[3] > p[1] + 10 /\ p[3] > p[2] + 10
InputSpreadAbove(p) ==
    \E c, d \in 1..3 : p[c] - p[d] > 15

C11_ProtectorRestores ==
    [][pc = "protect" =>
          \A yx \in Positions :
              (/\ BufferAt(yx)[4] = 0
               /\ OriginalAt(yx)[4] = 255
               /\ \/ InputBlueDominant(OriginalAt(yx))
                  \/ InputSpreadAbove(OriginalAt(yx)))
                  => NextBufferAt(yx) = OriginalAt(yx)]_vars

\* C12: in the row step, a row holding a run of more than 0.6 * width
\* consecutive pixels, each of alpha above 0 and mean brightness above 220,
\* comes out with every pixel of mean brightness above 200 at alpha 0; a
\* row without such a run comes out unchanged.
LongRun(line) ==
    \E a, b \in 1..Len(line) :
        /\ a <= b
        /\ 10 * (b - a + 1) > 6 * Len(line)
        /\ \A k \in a..b : line[k][4] > 0 /\ Sum3(line[k]) > 3 * 220

C12_RowRule ==
    [][pc = "rows" =>
          \A y \in 1..height :
              IF LongRun(result_data[y])
              THEN \A x \in 1..width :
                       Sum3(result_data[y][x]) > 3 * 200
                           => result_data'[y][x][4] = 0
              ELSE result_data'[y] = result_data[y]]_vars

C12_Witness ==
    /\ pc = "cols"
    /\ \E y \in 1..height :
          /\ LongRun(Masked[y])
          /\ \E x \in 1..width :
                /\ Masked[y][x] = Opaque(Silver)
                /\ result_data[y][x] = Transparent
    /\ \E y \in 1..height :
          /\ ~LongRun(Masked[y])
          /\ result_data[y] = Masked[y]

\* C13 as claimed: after the mask pass every pixel of the buffer has the
\* RGB of the input pixel, the pixels classified as background included.
C13_MaskKeepsRGB ==
    pc = "rows" =>
        \A yx \in Positions : RGB(BufferAt(yx)) = RGB(OriginalAt(yx))

\* C13 as amended: after the mask pass every pixel of the buffer is either
\* the input pixel, all four channels unchanged, or (0, 0, 0, 0): the
\* pass zeroes the RGB of a pixel together with its alpha.
C13_MaskKeepsOrZeroes ==
    pc = "rows" =>
        \A yx \in Positions :
            \/ BufferAt(yx) = OriginalAt(yx)
            \/ BufferAt(yx) = Transparent

C13_Witness ==
    /\ pc = "rows"
    /\ \E yx \in Positions :
          /\ OriginalAt(yx)[4] = 255
          /\ RGB(OriginalAt(yx)) # <<0, 0, 0>>
          /\ BufferAt(yx) = Transparent
    /\ \E yx \in Positions :
          /\ OriginalAt(yx)[4] = 255
          /\ BufferAt(yx) = OriginalAt(yx)

\* C14: the filtered image has, at every pixel, the RGB of the buffer the
\* filter was given.
C14_SmoothingKeepsRGB ==
    pc \in {"save", "done"} =>
        \A yx \in Positions :
            RGB(result_img[yx[1]][yx[2]]) = RGB(BufferAt(yx))

\* C15: neither the row step nor the column step raises the alpha of a
\* pixel, so a pixel that is transparent stays transparent, and a pixel
\* either step changes becomes (0, 0, 0, 0).
C15_SuppressionOnlyClears ==
    [][(pc = "rows" \/ pc = "cols") =>
          \A yx \in Positions :
              (/\ NextBufferAt(yx)[4] <= BufferAt(yx)[4]
               /\ NextBufferAt(yx) # BufferAt(yx)
                      => NextBufferAt(yx) = Transparent)]_vars

C15_Witness ==
    /\ pc = "protect"
    /\ \E yx \in Positions : Masked[yx[1]][yx[2]][4] = 0
    /\ \E yx \in Positions :
          /\ Masked[yx[1]][yx[2]][4] = 255
          /\ BufferAt(yx)[4] = 0
    /\ \E yx \in Positions :
          /\ Masked[yx[1]][yx[2]] = Clear(PaleBlue)
          /\ BufferAt(yx) = Transparent

\* C16 as claimed: the buffer the row step and then the column step leave
\* is the buffer the column pass followed by the row pass would leave.
ColumnsThenRows ==
    RowPass(ColumnPass(Masked, height, width), height, width)

C16_RowsAndColumnsCommute ==
    pc = "protect" => result_data = ColumnsThenRows

\* C16 as amended: the two orders give the same buffer whenever no row of
\* the masked buffer holds a long run or no column of it holds one.
NoRowLine == \A y \in 1..height : ~LongRun(Masked[y])
NoColumnLine == \A x \in 1..width : ~LongRun(Column(Masked, height, x))

C16_CommuteWithoutCrossing ==
    (pc = "protect" /\ (NoRowLine \/ NoColumnLine)) =>
        result_data = ColumnsThenRows

C16_Witness ==
    /\ pc = "protect"
    /\ NoColumnLine
    /\ ~NoRowLine
    /\ result_data # Masked
    /\ result_data = ColumnsThenRows

\* C17: once estimated, bg_color is the element-wise mean of the four corner
\* pixels of the input (held as the sum, four times the mean) and of nothing
\* else, and no step other than the estimate assigns it.
C17_BackgroundFromCorners ==
    /\ [](pc \in {"mask", "rows", "cols", "protect", "smooth", "save", "done"}
            => \A c \in 1..4 : bg_color[c] = CornerTotal(c))
    /\ [][pc # "corners" => bg_color' = bg_color]_vars

C17_Witness ==
    /\ Finished
    /\ ~UniformCorners
    /\ \E yx \in Positions :
          /\ ~OnRim(yx)
          /\ \A c \in {<<1, 1>>, <<1, width>>, <<height, 1>>, <<height, width>>} :
                OriginalAt(yx) # OriginalAt(c)
    /\ \A c \in 1..4 : bg_color[c] = CornerTotal(c)

\* C18: the passes run once each in the order Estimator, Mask, rows,
\* columns, Protector, Smoother, never going back; the function ends; and
\* the break out of a scan leaves only the scan, so every row and then every
\* column that holds a long run is cleared.
Stage(p) ==
    CASE p = "load"    -> 0
      [] p = "corners" -> 1
      [] p = "mask"    -> 2
      [] p = "rows"    -> 3
      [] p = "cols"    -> 4
      [] p = "protect" -> 5
      [] p = "smooth"  -> 6
      [] p = "save"    -> 7
      [] p = "done"    -> 8
      [] OTHER         -> 9

LineCleared(old, new, n) ==
    \A k \in 1..n : Sum3(old[k]) > 3 * LineClear => new[k][4] = 0

C18_PassOrder ==
    /\ [][\/ Stage(pc') = Stage(pc) + 1
          \/ pc \in {"load", "corners"} /\ pc' = "failed"]_vars
    /\ [][pc = "rows" =>
             \A y \in 1..height :
                 LongRun(result_data[y]) =>
                     LineCleared(result_data[y], result_data'[y], width)]_vars
    /\ [][pc = "cols" =>
             \A x \in 1..width :
                 LongRun(Column(result_data, height, x)) =>
                     LineCleared(Column(result_data, height, x),
                                 Column(result_data', height, x), height)]_vars
    /\ <>(pc \in {"done", "failed"})
    /\ [](pc = "failed" => BadInput)

C18_Witness ==
    /\ Finished
    /\ \E y1, y2 \in 1..height :
          /\ y1 < y2
          /\ LongRun(Masked[y1]) /\ LongRun(Masked[y2])
          /\ \A x \in 1..width : result_data[y1][x][4] = 0
          /\ \A x \in 1..width : result_data[y2][x][4] = 0
    /\ \E x1, x2 \in 1..width :
          /\ x1 < x2
          /\ LongRun(Column(Masked, height, x1))
          /\ LongRun(Column(Masked, height, x2))

\* C19: in the buffer handed to the smoothing filter, every pixel whose
\* input mean brightness is at most 180 is still its input pixel in all four
\* channels, at every point from the end of the mask pass on.
C19_DarkPixelsUntouched ==
    pc \in {"rows", "cols", "protect", "smooth", "save", "done"} =>
        \A yx \in Positions :
            ~MeanAbove(OriginalAt(yx), LightFloor) =>
                BufferAt(yx) = OriginalAt(yx)

C19_Witness ==
    /\ pc = "smooth"
    /\ \E y \in 1..height :
          /\ LongRun(Masked[y])
          /\ \E x1, x2 \in 1..width :
                /\ ~MeanAbove(OriginalAt(<<y, x1>>), LightFloor)
                /\ BufferAt(<<y, x1>>) = OriginalAt(<<y, x1>>)
                /\ OriginalAt(<<y, x2>>)[4] = 255
                /\ BufferAt(<<y, x2>>) = Transparent

\* C20: remove_background of make-transparent.py writes, for every pixel of
\* the RGBA-converted source, (255,255,255,0) when each of the r, g, b
\* differences to the floored corner mean is below fuzz in absolute value,
\* and the pixel itself, all four channels, otherwise; the target has the
\* source's rows and columns in the source's order.
SourceRGBA(n, yx) == ConvertPixel(source[n].px[yx[1]][yx[2]])

CornerAdded(n, c) ==
    LET h == Len(source[n].px)
        w == Len(source[n].px[1])
    IN  SourceRGBA(n, <<1, 1>>)[c] + SourceRGBA(n, <<1, w>>)[c]
            + SourceRGBA(n, <<h, 1>>)[c] + SourceRGBA(n, <<h, w>>)[c]

CornerFloor(n, c) ==
    LET sum == CornerAdded(n, c)
    IN  CHOOSE m \in 0..255 : 4 * m <= sum /\ sum < 4 * m + 4

ChannelGap(n, yx, c) ==
    LET d == SourceRGBA(n, yx)[c] - CornerFloor(n, c)
    IN  IF d < 0 THEN 0 - d ELSE d

WithinFuzz(n, yx) == \A c \in 1..3 : ChannelGap(n, yx, c) < fuzz

SourcePositions(n) ==
    (1..Len(source[n].px)) \X (1..Len(source[n].px[1]))

C20_FuzzRule ==
    \A n \in Names :
        target[n] # None =>
            /\ source[n].kind = "image"
            /\ target[n].kind = "image"
            /\ Len(target[n].px) = Len(source[n].px)
            /\ \A y \in 1..Len(source[n].px) :
                  Len(target[n].px[y]) = Len(source[n].px[y])
            /\ \A yx \in SourcePositions(n) :
                  target[n].px[yx[1]][yx[2]] =
                      IF WithinFuzz(n, yx)
                      THEN <<255, 255, 255, 0>>
                      ELSE SourceRGBA(n, yx)

C20_Witness ==
    /\ mpc = "done"
    /\ \E n \in Names :
          /\ target[n] # None
          /\ \E c \in 1..3 : CornerFloor(n, c) * 4 # CornerAdded(n, c)
          /\ \E near, far \in SourcePositions(n) :
                /\ \A c \in 1..3 : ChannelGap(n, near, c) = fuzz - 1
                /\ target[n].px[near[1]][near[2]] = <<255, 255, 255, 0>>
                /\ \A c \in 1..3 : ChannelGap(n, far, c) = fuzz
                /\ target[n].px[far[1]][far[2]] = SourceRGBA(n, far)
                /\ SourceRGBA(n, far)[4] = 255

====
